---- MODULE Spec2Model ----
(***************************************************************************)
(* VerdictArena (src/contracts/verdict_arena.py): the round life cycle of  *)
(* the contract -- open_round, submit_argument, judge_all and the read     *)
(* views -- as a state machine.                                            *)
(*                                                                         *)
(* A public write method runs as one transaction: the storage writes of a  *)
(* call that raises (a failed assert, an error of an equivalence           *)
(* principle, a Python exception) are discarded, so every handler returns  *)
(* either the new storage or the storage it started from, plus its error.  *)
(*                                                                         *)
(* Strings are sequences of one-character strings where the code slices,   *)
(* parses or formats them (the transaction datetime, the week string).     *)
(* An argument text is an opaque token with a length.  u256 arithmetic is  *)
(* far from its range here.                                                *)
(***************************************************************************)
EXTENDS Integers, Sequences, FiniteSets, TLC

\* ------------------------------------------------------------------ bounds
\* transaction dates are Dec 28 2024 + 2k days, k in 0..MaxDateIdx: Saturday of
\* ISO week 2024-W52, then Dec 30 and Jan 1, both in 2025-W01, and so on
MaxDateIdx == 2

\* ------------------------------------------------------- program constants
MinArgumentLen == 20
MaxArgumentLen == 600
MaxXp == 100

\* --------------------------------------------------------------- the inputs
Addresses == {"0xA1", "0xB2"}

\* the sender of the deployment
Deployer == "0xA1"

Sides == {"a", "b", "c"}

\* argument texts, one of each length at and around the two limits; a text is
\* an opaque token and TextLen is len(argument)
Arguments == {"text19", "text20", "text600", "text601"}

TextLen(argument) ==
    CASE argument = "text19" -> MinArgumentLen - 1
      [] argument = "text20" -> MinArgumentLen
      [] argument = "text600" -> MaxArgumentLen
      [] argument = "text601" -> MaxArgumentLen + 1

NoError == "ok"

\* what gl.eq_principle_strict_eq(fetch_topic) and json.loads yield for the
\* n-th round: an error, or the topic object the validators agree on (every
\* round finds a new topic on the front page)
TopicErrors == {"ConsensusDivergence", "OracleUnavailable"}

TopicOf(n) ==
    [err |-> NoError, topic |-> <<"topic", n>>,
     side_a |-> <<"pro", n>>, side_b |-> <<"contra", n>>]

TopicError(e) == [err |-> e, topic |-> <<>>, side_a |-> <<>>, side_b |-> <<>>]

Fetched(n) == {TopicOf(n)} \cup {TopicError(e) : e \in TopicErrors}

\* what gl.eq_principle_prompt_non_comparative and json.loads yield for one
\* participant: an error, a JSON object without "total", or an object with a total
ScoreErrors == {"OracleUnavailable", "ConsensusRejected", "JSONDecodeError"}

Totals == {-5, 50, 150}

Scored(t) == [err |-> NoError, has_total |-> TRUE, total |-> t]

NoTotal == [err |-> NoError, has_total |-> FALSE, total |-> 0]

ScoreError(e) == [err |-> e, has_total |-> FALSE, total |-> 0]

ScoreOutcomes ==
    {Scored(t) : t \in Totals} \cup {NoTotal} \cup {ScoreError(e) : e \in ScoreErrors}

\* ------------------------------------------------------- strings and dates
Digits == <<"0", "1", "2", "3", "4", "5", "6", "7", "8", "9">>

DigitChar(n) == Digits[n + 1]

DigitVal(c) == CHOOSE n \in 0..9 : Digits[n + 1] = c

\* int(s) for a string of decimal digits
RECURSIVE ParseInt(_)
ParseInt(s) ==
    IF Len(s) = 0 THEN 0
    ELSE 10 * ParseInt(SubSeq(s, 1, Len(s) - 1)) + DigitVal(s[Len(s)])

\* f"{n:02d}" and the four digits of a year
Fmt2(n) ==
    IF n < 100 THEN <<DigitChar(n \div 10), DigitChar(n % 10)>>
    ELSE <<DigitChar(n \div 100)>> \o <<DigitChar((n \div 10) % 10), DigitChar(n % 10)>>

Fmt4(n) == <<DigitChar(n \div 1000), DigitChar((n \div 100) % 10)>>
              \o <<DigitChar((n \div 10) % 10), DigitChar(n % 10)>>

\* gl.message.datetime of a transaction sent on day k of the model's calendar:
\* "YYYY-MM-DDT12:00:00Z"
DateOf(k) ==
    LET off == 2 * k
    IN  IF off <= 3 THEN <<2024, 12, 28 + off>> ELSE <<2025, 1, off - 3>>

DateTimeOf(k) ==
    LET d == DateOf(k)
    IN  Fmt4(d[1]) \o <<"-">> \o Fmt2(d[2]) \o <<"-">> \o Fmt2(d[3])
          \o <<"T", "1", "2", ":", "0", "0", ":", "0", "0", "Z">>

DateIdxs == 0..MaxDateIdx

\* datetime.date: proleptic Gregorian ordinal of a date
IsLeap(y) == y % 4 = 0 /\ (y % 100 # 0 \/ y % 400 = 0)

DaysBeforeYear(y) ==
    LET p == y - 1 IN p * 365 + p \div 4 - p \div 100 + p \div 400

DaysBeforeMonth(y, m) ==
    <<0, 31, 59, 90, 120, 151, 181, 212, 243, 273, 304, 334>>[m]
      + (IF m > 2 /\ IsLeap(y) THEN 1 ELSE 0)

Ymd2Ord(y, m, d) == DaysBeforeYear(y) + DaysBeforeMonth(y, m) + d

\* ordinal of the Monday that starts ISO week 1 of year y
IsoWeek1Monday(y) ==
    LET firstday == Ymd2Ord(y, 1, 1)
        firstweekday == (firstday + 6) % 7
        monday == firstday - firstweekday
    IN  IF firstweekday > 3 THEN monday + 7 ELSE monday

\* datetime.date(y, m, d).isocalendar()[0:2]
IsoCalendar(y, m, d) ==
    LET today == Ymd2Ord(y, m, d)
        week == (today - IsoWeek1Monday(y)) \div 7
    IN  IF week < 0
        THEN <<y - 1, (today - IsoWeek1Monday(y - 1)) \div 7 + 1>>
        ELSE IF week >= 52 /\ today >= IsoWeek1Monday(y + 1)
        THEN <<y + 1, 1>>
        ELSE <<y, week + 1>>

\* the week string open_round derives from the transaction datetime
WeekStr(dt) ==
    LET date_part == SubSeq(dt, 1, 10)
        year == ParseInt(SubSeq(date_part, 1, 4))
        month == ParseInt(SubSeq(date_part, 6, 7))
        day == ParseInt(SubSeq(date_part, 9, 10))
        iso == IsoCalendar(year, month, day)
    IN  Fmt4(iso[1]) \o <<"-", "W">> \o Fmt2(iso[2])


\* ------------------------------------------------------------ the storage
VARIABLES
    current_week,      \* week string of the round, "" before the first round
    current_topic,
    current_side_a,
    current_side_b,
    submissions,       \* TreeMap: participant -> stored argument
    scores,            \* TreeMap: participant -> XP of this round
    all_time_xp,       \* TreeMap: participant -> lifetime XP
    player_list,       \* DynArray of participants
    round_open,
    judging_done,
    host,
    \* history variables, not part of the contract
    tx,                \* the last write call: method, error (NoError if none) and
                       \* the number of entries it wrote before it ended
    opened,            \* week strings of the successful open_round calls, in order
    writes,            \* per participant: writes of scores[p] since the last open
    first_seen,        \* senders of the accepted submits of this round, each once,
                       \* in the order of their first accepted submit
    xp_at_open,        \* all_time_xp as it was at the last successful open_round
    awarded            \* per participant: sum of the scores recorded for them in
                       \* all judged rounds

storage == <<current_week, current_topic, current_side_a, current_side_b,
             submissions, scores, all_time_xp, player_list, round_open,
             judging_done, host>>

history == <<tx, opened, writes, first_seen, xp_at_open, awarded>>

vars == <<storage, history>>

\* the storage as one value, the form the handlers take and return
St ==
    [ current_week |-> current_week, current_topic |-> current_topic,
      current_side_a |-> current_side_a, current_side_b |-> current_side_b,
      submissions |-> submissions, scores |-> scores, all_time_xp |-> all_time_xp,
      player_list |-> player_list, round_open |-> round_open,
      judging_done |-> judging_done, host |-> host ]

Store(st) ==
    /\ current_week' = st.current_week
    /\ current_topic' = st.current_topic
    /\ current_side_a' = st.current_side_a
    /\ current_side_b' = st.current_side_b
    /\ submissions' = st.submissions
    /\ scores' = st.scores
    /\ all_time_xp' = st.all_time_xp
    /\ player_list' = st.player_list
    /\ round_open' = st.round_open
    /\ judging_done' = st.judging_done
    /\ host' = st.host

\* TreeMap operations
EmptyMap == [a \in {} |-> 0]

Get(m, k, default) == IF k \in DOMAIN m THEN m[k] ELSE default

Put(m, k, v) == [a \in (DOMAIN m) \cup {k} |-> IF a = k THEN v ELSE m[a]]

Del(m, k) == [a \in (DOMAIN m) \ {k} |-> m[a]]

Range(s) == {s[i] : i \in 1..Len(s)}

EmptyStr == <<>>

\* the outcome of a handler: the storage it leaves, its error, and the
\* participants whose roster entry or score it wrote, in order
Ok(st) == [st |-> st, err |-> NoError, log |-> <<>>]

Fail(st, e) == [st |-> st, err |-> e, log |-> <<>>]

\* a write method is one transaction: a call that raises leaves the storage
\* it started from
Transact(pre, r) == IF r.err = NoError THEN r ELSE [r EXCEPT !.st = pre]

\* ------------------------------------------------------------ constructor
Init ==
    /\ current_week = EmptyStr
    /\ current_topic = EmptyStr
    /\ current_side_a = EmptyStr
    /\ current_side_b = EmptyStr
    /\ round_open = FALSE
    /\ judging_done = FALSE
    /\ host = Deployer
    /\ submissions = EmptyMap
    /\ scores = EmptyMap
    /\ all_time_xp = EmptyMap
    /\ player_list = <<>>
    /\ tx = [op |-> "__init__", err |-> NoError, n |-> 0]
    /\ first_seen = <<>>
    /\ opened = <<>>
    /\ writes = [a \in Addresses |-> 0]
    /\ xp_at_open = EmptyMap
    /\ awarded = [a \in Addresses |-> 0]

\* ------------------------------------------------------------- open_round
RECURSIVE ClearLoop_AlsoLifetime(_, _)
ClearLoop_AlsoLifetime(st, i) ==
    IF i > Len(st.player_list) THEN Ok(st)
    ELSE LET addr == st.player_list[i]
         IN  IF addr \notin DOMAIN st.submissions \/ addr \notin DOMAIN st.scores
             THEN Fail(st, "KeyError")
             ELSE ClearLoop_AlsoLifetime([st EXCEPT !.submissions = Del(@, addr),
                                                    !.scores = Del(@, addr),
                                                    !.all_time_xp = Del(@, addr)], i + 1)

RECURSIVE ClearLoop_OnlySubmissions(_, _)
ClearLoop_OnlySubmissions(st, i) ==
    IF i > Len(st.player_list) THEN Ok(st)
    ELSE LET addr == st.player_list[i]
         IN  IF addr \notin DOMAIN st.submissions
             THEN Fail(st, "KeyError")
             ELSE ClearLoop_OnlySubmissions([st EXCEPT !.submissions = Del(@, addr)], i + 1)

\* for addr in player_list: del submissions[addr]; del scores[addr]
RECURSIVE ClearLoop(_, _)
ClearLoop(st, i) ==
    IF i > Len(st.player_list) THEN Ok(st)
    ELSE LET addr == st.player_list[i]
         IN  IF addr \notin DOMAIN st.submissions \/ addr \notin DOMAIN st.scores
             THEN Fail(st, "KeyError")
             ELSE ClearLoop([st EXCEPT !.submissions = Del(@, addr),
                                       !.scores = Del(@, addr)], i + 1)

PopAll_Once(l) == IF Len(l) > 0 THEN SubSeq(l, 1, Len(l) - 1) ELSE l

\* while len(player_list) > 0: player_list.pop()
RECURSIVE PopAll(_)
PopAll(l) == IF Len(l) > 0 THEN PopAll(SubSeq(l, 1, Len(l) - 1)) ELSE l

\* the asserts of open_round, in order, under the names the errors have in the
\* specification: "Only host can open rounds", "A round is already open",
\* "Round for this week already played"
open_round_asserts_NoOpenAssert(st, sender, week_str) ==
    IF sender # st.host THEN "Unauthorized"
    ELSE IF week_str = st.current_week THEN "PeriodAlreadyPlayed"
    ELSE NoError

open_round_asserts_NoWeekAssert(st, sender, week_str) ==
    IF sender # st.host THEN "Unauthorized"
    ELSE IF st.round_open THEN "RoundAlreadyOpen"
    ELSE NoError

open_round_asserts(st, sender, week_str) ==
    IF sender # st.host THEN "Unauthorized"
    ELSE IF st.round_open THEN "RoundAlreadyOpen"
    ELSE IF week_str = st.current_week THEN "PeriodAlreadyPlayed"
    ELSE NoError

\* open_round from the point where week_str is known
open_round_in_week(st, sender, week_str, fetched) ==
    LET e == open_round_asserts(st, sender, week_str)
        s1 == [st EXCEPT !.current_week = week_str]
    IN  IF e # NoError THEN Fail(st, e)
             ELSE IF fetched.err # NoError THEN Fail(s1, fetched.err)
             ELSE LET s2 == [s1 EXCEPT !.current_topic = fetched.topic,
                                       !.current_side_a = fetched.side_a,
                                       !.current_side_b = fetched.side_b]
                      r == ClearLoop(s2, 1)
                  IN  IF r.err # NoError THEN r
                      ELSE Ok([r.st EXCEPT !.player_list = PopAll(@),
                                           !.round_open = TRUE,
                                           !.judging_done = FALSE])

open_round_body(st, sender, dt, fetched) ==
    open_round_in_week(st, sender, WeekStr(dt), fetched)

open_round_NoRollback(st, sender, dt, fetched) ==
    open_round_body(st, sender, dt, fetched)

open_round(st, sender, dt, fetched) ==
    Transact(st, open_round_body(st, sender, dt, fetched))

\* -------------------------------------------------------- submit_argument
Upper(side) == CASE side = "a" -> "A" [] side = "b" -> "B" [] OTHER -> "C"

\* f"SIDE_{side.upper()}::{argument}", the argument being one opaque token
StoredArgument(side, argument) == <<"SIDE_", Upper(side), "::", argument>>

\* the asserts of submit_argument, in order: "No round is currently open",
\* "Judging is already complete for this round", "side must be 'a' or 'b'",
\* "Argument too short", "Argument too long"
submit_argument_asserts_StrictMin(st, side, argument) ==
    IF ~st.round_open THEN "RoundNotOpen"
    ELSE IF st.judging_done THEN "RoundAlreadyJudged"
    ELSE IF side \notin {"a", "b"} THEN "InvalidSide"
    ELSE IF ~(TextLen(argument) > MinArgumentLen) THEN "TextTooShort"
    ELSE IF ~(TextLen(argument) <= MaxArgumentLen) THEN "TextTooLong"
    ELSE NoError

submit_argument_asserts(st, side, argument) ==
    IF ~st.round_open THEN "RoundNotOpen"
    ELSE IF st.judging_done THEN "RoundAlreadyJudged"
    ELSE IF side \notin {"a", "b"} THEN "InvalidSide"
    ELSE IF ~(TextLen(argument) >= MinArgumentLen) THEN "TextTooShort"
    ELSE IF ~(TextLen(argument) <= MaxArgumentLen) THEN "TextTooLong"
    ELSE NoError

submit_argument_body_AlwaysAppends(st, sender, side, argument) ==
    LET e == submit_argument_asserts(st, side, argument)
    IN  IF e # NoError THEN Fail(st, e)
        ELSE [st |-> [st EXCEPT !.player_list = Append(@, sender),
                                !.submissions =
                                   Put(@, sender, StoredArgument(side, argument))],
              err |-> NoError,
              log |-> <<sender>>]

submit_argument_body(st, sender, side, argument) ==
    LET e == submit_argument_asserts(st, side, argument)
    IN  IF e # NoError THEN Fail(st, e)
    ELSE LET player == sender
             new == Get(st.submissions, player, EmptyStr) = EmptyStr
             s1 == IF new THEN [st EXCEPT !.player_list = Append(@, player)] ELSE st
         IN  [st |-> [s1 EXCEPT !.submissions =
                                   Put(@, player, StoredArgument(side, argument))],
              err |-> NoError,
              log |-> IF new THEN <<player>> ELSE <<>>]

submit_argument(st, sender, side, argument) ==
    Transact(st, submit_argument_body(st, sender, side, argument))


\* -------------------------------------------------------------- judge_all
\* raw.split("::", 1): the tokens before the first "::" and those after it
SplitOnce(raw) ==
    IF \E i \in 1..Len(raw) : raw[i] = "::"
    THEN LET i == CHOOSE j \in 1..Len(raw) :
                     raw[j] = "::" /\ \A h \in 1..(j - 1) : raw[h] # "::"
         IN  <<SubSeq(raw, 1, i - 1), SubSeq(raw, i + 1, Len(raw))>>
    ELSE <<raw>>

Min(a, b) == IF a < b THEN a ELSE b

Max(a, b) == IF a > b THEN a ELSE b

Xp_NoLowerClamp(scored) == Min(IF scored.has_total THEN scored.total ELSE 0, MaxXp)

\* u256(min(max(int(scored.get("total", 0)), 0), 100))
Xp(scored) == Min(Max(IF scored.has_total THEN scored.total ELSE 0, 0), MaxXp)

\* the position the scoring prompt names for a stored argument
Position(st, raw) ==
    LET parts == SplitOnce(raw)
        side_tag == parts[1]
    IN  IF side_tag = <<"SIDE_", "A">> THEN st.current_side_a ELSE st.current_side_b

RECURSIVE JudgeLoop_Overwrites(_, _, _, _)
JudgeLoop_Overwrites(st, i, oracle, log) ==
    IF i > Len(st.player_list) THEN [st |-> st, err |-> NoError, log |-> log]
    ELSE LET player == st.player_list[i]
             raw == Get(st.submissions, player, EmptyStr)
         IN  IF raw = EmptyStr THEN JudgeLoop_Overwrites(st, i + 1, oracle, log)
             ELSE IF oracle[player].err # NoError
             THEN [st |-> st, err |-> oracle[player].err, log |-> log]
             ELSE LET xp == Xp(oracle[player])
                      s1 == [st EXCEPT !.scores = Put(@, player, xp),
                                       !.all_time_xp = Put(@, player, xp)]
                  IN  JudgeLoop_Overwrites(s1, i + 1, oracle, Append(log, player))

\* for player in player_list: score, record, accumulate; oracle[player] is what
\* the scoring call for that player yields
RECURSIVE JudgeLoop(_, _, _, _)
JudgeLoop(st, i, oracle, log) ==
    IF i > Len(st.player_list) THEN [st |-> st, err |-> NoError, log |-> log]
    ELSE LET player == st.player_list[i]
             raw == Get(st.submissions, player, EmptyStr)
         IN  IF raw = EmptyStr THEN JudgeLoop(st, i + 1, oracle, log)
             ELSE IF oracle[player].err # NoError
             THEN [st |-> st, err |-> oracle[player].err, log |-> log]
             ELSE LET xp == Xp(oracle[player])
                      current_all_time == Get(st.all_time_xp, player, 0)
                      s1 == [st EXCEPT !.scores = Put(@, player, xp),
                                       !.all_time_xp = Put(@, player, current_all_time + xp)]
                  IN  JudgeLoop(s1, i + 1, oracle, Append(log, player))

\* the asserts of judge_all, in order: "Only host can trigger judging",
\* "No open round to judge", "Already judged", "No submissions to judge"
judge_all_asserts_HostCheckLate(st, sender) ==
    IF ~st.round_open THEN "RoundNotOpen"
    ELSE IF sender # st.host THEN "Unauthorized"
    ELSE IF st.judging_done THEN "AlreadyJudged"
    ELSE IF ~(Len(st.player_list) > 0) THEN "NoSubmissions"
    ELSE NoError

judge_all_asserts_NoEmptyCheck(st, sender) ==
    IF sender # st.host THEN "Unauthorized"
    ELSE IF ~st.round_open THEN "RoundNotOpen"
    ELSE IF st.judging_done THEN "AlreadyJudged"
    ELSE NoError

judge_all_asserts(st, sender) ==
    IF sender # st.host THEN "Unauthorized"
    ELSE IF ~st.round_open THEN "RoundNotOpen"
    ELSE IF st.judging_done THEN "AlreadyJudged"
    ELSE IF ~(Len(st.player_list) > 0) THEN "NoSubmissions"
    ELSE NoError

CloseRound_LeavesOpen(st) == [st EXCEPT !.judging_done = TRUE]

CloseRound_NoFlags(st) == st

\* round_open = False; judging_done = True
CloseRound(st) == [st EXCEPT !.round_open = FALSE, !.judging_done = TRUE]

judge_all_body(st, sender, oracle) ==
    LET e == judge_all_asserts(st, sender)
    IN  IF e # NoError THEN Fail(st, e)
        ELSE LET r == JudgeLoop(st, 1, oracle, <<>>)
             IN  IF r.err # NoError THEN r ELSE [r EXCEPT !.st = CloseRound(r.st)]

judge_all_NoRollback(st, sender, oracle) == judge_all_body(st, sender, oracle)

judge_all(st, sender, oracle) == Transact(st, judge_all_body(st, sender, oracle))

\* ------------------------------------------------------------------ views
RECURSIVE Insert_BeforeEqual(_, _, _)
Insert_BeforeEqual(sorted, e, key) ==
    IF sorted = <<>> THEN <<e>>
    ELSE IF Head(sorted)[key] > e[key]
    THEN <<Head(sorted)>> \o Insert_BeforeEqual(Tail(sorted), e, key)
    ELSE <<e>> \o sorted

\* list.sort(key=..., reverse=True): descending by key, equal keys keep their
\* order; Insert puts e behind every entry whose key is not smaller
RECURSIVE Insert(_, _, _)
Insert(sorted, e, key) ==
    IF sorted = <<>> THEN <<e>>
    ELSE IF Head(sorted)[key] >= e[key]
    THEN <<Head(sorted)>> \o Insert(Tail(sorted), e, key)
    ELSE <<e>> \o sorted

RECURSIVE SortDesc(_, _)
SortDesc(entries, key) ==
    IF entries = <<>> THEN <<>>
    ELSE Insert(SortDesc(SubSeq(entries, 1, Len(entries) - 1), key),
                entries[Len(entries)], key)

\* entry["rank"] = i + 1
Ranked(entries) == [i \in 1..Len(entries) |-> [entries[i] EXCEPT !.rank = i]]

get_leaderboard(st) ==
    LET entries == [i \in 1..Len(st.player_list) |->
                       [address |-> st.player_list[i],
                        xp |-> Get(st.scores, st.player_list[i], 0),
                        rank |-> 0]]
    IN  [week |-> st.current_week, topic |-> st.current_topic,
         leaderboard |-> Ranked(SortDesc(entries, "xp"))]

get_all_time_leaderboard(st) ==
    LET entries == [i \in 1..Len(st.player_list) |->
                       [address |-> st.player_list[i],
                        lifetime_xp |-> Get(st.all_time_xp, st.player_list[i], 0),
                        rank |-> 0]]
    IN  [all_time_leaderboard |-> Ranked(SortDesc(entries, "lifetime_xp"))]

get_round_info(st) ==
    [week |-> st.current_week, topic |-> st.current_topic,
     side_a |-> st.current_side_a, side_b |-> st.current_side_b,
     round_open |-> st.round_open, judging_done |-> st.judging_done,
     player_count |-> Len(st.player_list)]

get_my_score(st, player_address) ==
    [address |-> player_address,
     this_week_xp |-> Get(st.scores, player_address, 0),
     lifetime_xp |-> Get(st.all_time_xp, player_address, 0)]


\* ---------------------------------------------------------------- actions
Called(op, r) == tx' = [op |-> op, err |-> r.err, n |-> Len(r.log)]

\* transaction time does not run backwards: a call is not dated before the
\* week of the round that is in the storage
WeekOfDay == [k \in DateIdxs |-> WeekStr(DateTimeOf(k))]

NotBefore(k) ==
    \A j \in DateIdxs : WeekOfDay[j] = current_week => k >= j \/ WeekOfDay[k] = current_week

\* the date and the topic fetch matter only to a call that passes the first
\* two asserts
OpenInputs(sender) ==
    IF sender = host /\ ~round_open
    THEN {<<k, f>> : k \in {j \in DateIdxs : NotBefore(j)}, f \in Fetched(Len(opened) + 1)}
    ELSE {<<MaxDateIdx, TopicOf(Len(opened) + 1)>>}

OpenRoundDone(r) ==
    /\ Store(r.st)
    /\ Called("open_round", r)
    /\ IF r.err = NoError
       THEN /\ opened' = Append(opened, r.st.current_week)
            /\ writes' = [a \in Addresses |-> 0]
            /\ first_seen' = <<>>
            /\ xp_at_open' = all_time_xp
       ELSE UNCHANGED <<opened, writes, first_seen, xp_at_open>>
    /\ UNCHANGED awarded

OpenRoundCall(sender, k, fetched) ==
    OpenRoundDone(open_round(St, sender, DateTimeOf(k), fetched))

OpenRound ==
    \E sender \in Addresses :
      \E in \in OpenInputs(sender) : OpenRoundCall(sender, in[1], in[2])

\* side and argument matter only while the round takes submissions
SubmitInputs ==
    IF round_open /\ ~judging_done THEN Sides \X Arguments ELSE {<<"a", "text20">>}

SubmitArgumentCall(sender, side, argument) ==
    LET r == submit_argument(St, sender, side, argument)
    IN  /\ Store(r.st)
        /\ Called("submit_argument", r)
        /\ first_seen' = IF r.err = NoError /\ sender \notin Range(first_seen)
                         THEN Append(first_seen, sender)
                         ELSE first_seen
        /\ UNCHANGED <<opened, writes, xp_at_open, awarded>>

SubmitArgument ==
    \E sender \in Addresses, in \in SubmitInputs :
        SubmitArgumentCall(sender, in[1], in[2])

\* the scoring oracle is consulted only by a call that passes the asserts
OracleAnswers(sender) ==
    IF sender = host /\ round_open /\ ~judging_done
    THEN [Range(player_list) -> ScoreOutcomes]
    ELSE {[a \in Range(player_list) |-> NoTotal]}

JudgeAllCall(sender, oracle) ==
    LET r == judge_all(St, sender, oracle)
    IN  /\ Store(r.st)
        /\ Called("judge_all", r)
        /\ writes' = [a \in Addresses |->
                        IF r.err = NoError
                        THEN writes[a] + Cardinality({i \in 1..Len(r.log) : r.log[i] = a})
                        ELSE writes[a]]
        /\ awarded' = [a \in Addresses |->
                         IF r.err = NoError /\ a \in Range(r.log)
                         THEN awarded[a] + r.st.scores[a]
                         ELSE awarded[a]]
        /\ UNCHANGED <<opened, first_seen, xp_at_open>>

JudgeAll ==
    \E sender \in Addresses :
      \E oracle \in OracleAnswers(sender) : JudgeAllCall(sender, oracle)

\* the views read the storage and change nothing
GetLeaderboard == get_leaderboard(St) = get_leaderboard(St) /\ UNCHANGED vars

GetAllTimeLeaderboard ==
    get_all_time_leaderboard(St) = get_all_time_leaderboard(St) /\ UNCHANGED vars

GetRoundInfo == get_round_info(St) = get_round_info(St) /\ UNCHANGED vars

GetMyScore ==
    \E a \in Addresses : get_my_score(St, a) = get_my_score(St, a) /\ UNCHANGED vars

Next ==
    \/ OpenRound
    \/ SubmitArgument
    \/ JudgeAll
    \/ GetLeaderboard
    \/ GetAllTimeLeaderboard
    \/ GetRoundInfo
    \/ GetMyScore

Spec == Init /\ [][Next]_vars

\* the host keeps calling: a judge_all whose scoring calls all succeed, and an
\* open_round dated in a period after the stored one whose topic fetch succeeds
HostJudgesScored ==
    \E oracle \in [Range(player_list) -> {Scored(50)}] :
        JudgeAllCall(host, oracle)

HostOpensLater ==
    \E k \in DateIdxs :
        /\ NotBefore(k)
        /\ WeekOfDay[k] # current_week
        /\ OpenRoundDone(Transact(St, open_round_in_week(St, host, WeekOfDay[k],
                                                         TopicOf(Len(opened) + 1))))

\* whether a round closes does not depend on which text was submitted for
\* which side or on the total a scoring call returned: the fair specification
\* draws them from fewer values
SubmitOneText ==
    \E sender \in Addresses, argument \in {"text19", "text20"} :
        SubmitArgumentCall(sender, "a", argument)

JudgeAllOneTotal ==
    \E sender \in Addresses :
      \E oracle \in [Range(player_list) -> {Scored(50), ScoreError("OracleUnavailable")}] :
        JudgeAllCall(sender, oracle)

FairNext ==
    \/ OpenRound
    \/ SubmitOneText
    \/ JudgeAllOneTotal
    \/ GetLeaderboard
    \/ GetAllTimeLeaderboard
    \/ GetRoundInfo
    \/ GetMyScore

\* the host keeps calling judge_all and open_round, the oracle answers in the
\* end; participants are under no obligation to submit
FairSpec ==
    /\ Init
    /\ [][FairNext]_vars
    /\ WF_vars(HostJudgesScored)
    /\ WF_vars(HostOpensLater)


\* ------------------------------------------------------------- properties
NoDup(l) == \A i, j \in 1..Len(l) : i # j => l[i] # l[j]

\* C1: a judge_all call that ends in a scoring error -- the oracle unavailable,
\* the proposal rejected, its output unparsable -- for any participant, also
\* one behind participants the same call has already scored, leaves the whole
\* storage, and with it the count of score writes, exactly as it was.
C1_JudgeAllIsAllOrNothing ==
    [][ (tx'.op = "judge_all" /\ tx'.err \in ScoreErrors)
          => /\ storage' = storage
             /\ writes' = writes ]_vars

\* a judge_all call has failed on the second participant after scoring the first
C1_Witness ==
    /\ tx = [op |-> "judge_all", err |-> "ConsensusRejected", n |-> 1]
    /\ Len(player_list) = 2
    /\ scores = EmptyMap

\* C2 as stated: after a successful open_round, a further open_round by the
\* host dated in the same period fails with PeriodAlreadyPlayed.
C2_SecondOpenFailsPeriodAlreadyPlayed ==
    \A k \in DateIdxs : \A f \in Fetched(Len(opened) + 1) :
        (opened # <<>> /\ WeekStr(DateTimeOf(k)) = opened[Len(opened)])
            => open_round(St, host, DateTimeOf(k), f).err = "PeriodAlreadyPlayed"

\* C2 amended: such a call always fails and changes nothing; it fails with
\* RoundAlreadyOpen while the round is still open, and with PeriodAlreadyPlayed
\* once the round has been judged.
C2_SecondOpenFails ==
    \A k \in DateIdxs : \A f \in Fetched(Len(opened) + 1) :
        (opened # <<>> /\ WeekStr(DateTimeOf(k)) = opened[Len(opened)])
            => LET r == open_round(St, host, DateTimeOf(k), f)
               IN  /\ r.err = IF round_open THEN "RoundAlreadyOpen"
                              ELSE "PeriodAlreadyPlayed"
                   /\ r.st = St

\* the host has called open_round again in the period of a judged round
C2_Witness ==
    /\ tx.op = "open_round" /\ tx.err = "PeriodAlreadyPlayed"
    /\ judging_done /\ Len(player_list) > 0
    /\ opened # <<>> /\ opened[Len(opened)] = current_week

\* C3: open_round succeeds only where no round is open and the derived period
\* differs from the stored one, and no period is opened twice.
C3_OneRoundPerPeriod ==
    [][ opened' # opened
          => /\ ~round_open
             /\ current_week' # current_week
             /\ opened' = Append(opened, current_week')
             /\ NoDup(opened') ]_vars

\* two rounds have been opened, the second after the first was judged
C3_Witness ==
    /\ Len(opened) = 2
    /\ tx.op = "open_round" /\ tx.err = NoError
    /\ all_time_xp # EmptyMap

\* C4: a successful judge_all leaves the round closed and judged; it stays so
\* until the next successful open_round; and there every submit fails with
\* RoundNotOpen and changes nothing.
C4_JudgedIsTerminal ==
    /\ [](judging_done /\ ~round_open
            => \A sender \in Addresses, side \in Sides, argument \in Arguments :
                  LET r == submit_argument(St, sender, side, argument)
                  IN  r.err = "RoundNotOpen" /\ r.st = St)
    /\ [][ /\ (tx'.op = "judge_all" /\ tx'.err = NoError)
                 => (~round_open' /\ judging_done')
           /\ (judging_done /\ ~round_open /\ opened' = opened)
                 => (judging_done' /\ ~round_open') ]_vars

\* a submit has been rejected in a judged round
C4_Witness ==
    /\ tx.op = "submit_argument" /\ tx.err = "RoundNotOpen"
    /\ judging_done /\ ~round_open

\* C5: in one round no participant's score is written twice and no lifetime
\* score grows by more than 100.
C5_ScoredOncePerRound ==
    \A p \in Addresses :
        /\ writes[p] <= 1
        /\ Get(all_time_xp, p, 0) - Get(xp_at_open, p, 0) <= MaxXp
        /\ writes[p] = 0 => Get(all_time_xp, p, 0) = Get(xp_at_open, p, 0)

\* a second judge_all has been rejected in a round whose participants are scored
C5_Witness ==
    /\ tx.op = "judge_all" /\ tx.err = "RoundNotOpen"
    /\ \E p \in Addresses :
          writes[p] = 1 /\ Get(all_time_xp, p, 0) - Get(xp_at_open, p, 0) = MaxXp


\* C6: the roster holds no participant twice and lists the participants in the
\* order of their first accepted submit of this round; an accepted submit by a
\* participant already on the roster replaces that participant's submission
\* and leaves the roster as it is.
C6_RosterIsFirstSeenOrder ==
    /\ NoDup(player_list)
    /\ player_list = first_seen
    /\ round_open =>
         \A sender \in Range(player_list), side \in {"a", "b"},
            argument \in {"text20", "text600"} :
              LET r == submit_argument(St, sender, side, argument)
              IN  /\ r.err = NoError
                  /\ r.st.player_list = player_list
                  /\ r.st.submissions =
                       [submissions EXCEPT ![sender] = <<"SIDE_", Upper(side), "::", argument>>]

\* a participant who is second on the roster has had a resubmission accepted
C6_Witness ==
    /\ tx = [op |-> "submit_argument", err |-> NoError, n |-> 0]
    /\ Len(player_list) = 2
    /\ submissions[player_list[2]] = <<"SIDE_", "B", "::", "text600">>
    /\ submissions[player_list[1]] = <<"SIDE_", "A", "::", "text20">>

\* C7: no step lowers a participant's lifetime score or removes its entry.
C7_LifetimeNeverDecreases ==
    [][ \A p \in DOMAIN all_time_xp :
            p \in DOMAIN all_time_xp' /\ all_time_xp'[p] >= all_time_xp[p] ]_vars

\* a participant of the first round keeps a lifetime score through the reset of
\* the second open_round, and a second judged round has added to another's
C7_Witness ==
    /\ Len(opened) = 2 /\ judging_done
    /\ \E p \in DOMAIN all_time_xp : p \notin Range(player_list) /\ all_time_xp[p] = 50
    /\ \E p \in Range(player_list) : all_time_xp[p] = 150

\* C8 as stated: the lifetime leaderboard has an entry for every participant
\* with a lifetime score.
C8_LeaderboardCoversLifetime ==
    LET lb == get_all_time_leaderboard(St).all_time_leaderboard
    IN  \A p \in DOMAIN all_time_xp : \E i \in 1..Len(lb) : lb[i].address = p

\* the place of a participant on the roster
RosterIndex(p) == CHOOSE i \in 1..Len(player_list) : player_list[i] = p

\* C9: get_leaderboard has one entry per roster participant, with that
\* participant's score of the round (0 if none), in descending order of score,
\* participants of equal score in roster order, ranked 1..n.
C9_LeaderboardOrder ==
    LET lb == get_leaderboard(St).leaderboard
    IN  /\ Len(lb) = Len(player_list)
        /\ {lb[i].address : i \in 1..Len(lb)} = Range(player_list)
        /\ \A i \in 1..Len(lb) :
              /\ lb[i].rank = i
              /\ lb[i].xp = (IF lb[i].address \in DOMAIN scores
                             THEN scores[lb[i].address] ELSE 0)
        /\ \A i, j \in 1..Len(lb) :
              i < j => \/ lb[i].xp > lb[j].xp
                       \/ /\ lb[i].xp = lb[j].xp
                          /\ RosterIndex(lb[i].address) < RosterIndex(lb[j].address)

\* two participants are tied at 50 and the one who submitted first is not the
\* deployer
C9_Witness ==
    LET lb == get_leaderboard(St).leaderboard
    IN  /\ judging_done /\ Len(lb) = 2
        /\ lb[1].xp = 50 /\ lb[2].xp = 50
        /\ lb[1].address = "0xB2" /\ player_list[1] = "0xB2"

\* C10: every score of the round is in 0..100, and a judge_all given integer
\* totals records for each participant the total clamped to 0..100.
C10_ScoresClamped ==
    /\ \A p \in DOMAIN scores : scores[p] \in 0..100
    /\ (round_open /\ player_list # <<>>) =>
         \A oracle \in [Range(player_list) -> {Scored(t) : t \in Totals}] :
            LET r == judge_all(St, host, oracle)
            IN  /\ r.err = NoError
                /\ \A p \in Range(player_list) :
                      r.st.scores[p] = (IF oracle[p].total < 0 THEN 0
                                        ELSE IF oracle[p].total > 100 THEN 100
                                        ELSE oracle[p].total)

\* a judged round in which a total above 100 was recorded as 100 and another
\* participant has 0
C10_Witness ==
    /\ tx.op = "judge_all" /\ tx.err = NoError /\ tx.n = 2
    /\ \E p, q \in DOMAIN scores : scores[p] = 100 /\ scores[q] = 0


\* C11: a participant's lifetime score is the sum of the scores recorded for
\* them in all judged rounds; a judged round has added to each roster
\* participant's lifetime score exactly their score of the round and nothing to
\* anyone else's; after the first judged round the lifetime scores are the
\* scores of the round.
C11_LifetimeIsSumOfScores ==
    /\ \A p \in Addresses :
          /\ Get(all_time_xp, p, 0) = awarded[p]
          /\ Get(all_time_xp, p, 0) =
                Get(xp_at_open, p, 0) + (IF judging_done THEN Get(scores, p, 0) ELSE 0)
          /\ (p \notin Range(player_list) /\ p \in DOMAIN all_time_xp)
                => (p \in DOMAIN xp_at_open /\ all_time_xp[p] = xp_at_open[p])
    /\ (Len(opened) = 1 /\ judging_done) => all_time_xp = scores

\* a second judged round has added 50 to a lifetime score of 100
C11_Witness ==
    /\ Len(opened) = 2 /\ judging_done
    /\ tx.op = "judge_all" /\ tx.err = NoError
    /\ \E p \in Range(player_list) :
          scores[p] = 50 /\ Get(xp_at_open, p, 0) = 100 /\ all_time_xp[p] = 150


\* the ISO week labels of the dates of the model, from the calendar: 28 Dec 2024
\* is a Saturday of week 52 of 2024, 30 Dec 2024 to 5 Jan 2025 is week 1 of 2025
CalendarWeek(k) ==
    IF k = 0 THEN <<"2", "0", "2", "4", "-", "W", "5", "2">>
    ELSE <<"2", "0", "2", "5", "-", "W", "0", "1">>

\* C12: a successful open_round leaves the round open and unjudged, with the
\* period of the call's date, the fetched topic and both fetched positions
\* installed, with submissions, roster and scores completely empty, and with
\* the lifetime scores and the host as they were.
C12_OpenInstallsFreshRound ==
    /\ \A k \in DateIdxs :
          LET f == TopicOf(Len(opened) + 1)
              r == open_round(St, host, DateTimeOf(k), f)
          IN  r.err = NoError =>
                 r.st = [ current_week |-> CalendarWeek(k),
                          current_topic |-> f.topic,
                          current_side_a |-> f.side_a,
                          current_side_b |-> f.side_b,
                          submissions |-> EmptyMap,
                          scores |-> EmptyMap,
                          all_time_xp |-> all_time_xp,
                          player_list |-> <<>>,
                          round_open |-> TRUE,
                          judging_done |-> FALSE,
                          host |-> host ]
    /\ (tx.op = "open_round" /\ tx.err = NoError) =>
          /\ round_open /\ ~judging_done
          /\ current_week = opened[Len(opened)]
          /\ current_topic = TopicOf(Len(opened)).topic
          /\ current_side_a = TopicOf(Len(opened)).side_a
          /\ current_side_b = TopicOf(Len(opened)).side_b
          /\ submissions = EmptyMap /\ scores = EmptyMap /\ player_list = <<>>
          /\ all_time_xp = xp_at_open
          /\ host = Deployer

\* the second round has just been opened after a round with two participants
C12_Witness ==
    /\ tx.op = "open_round" /\ tx.err = NoError
    /\ current_topic = TopicOf(2).topic
    /\ current_week = CalendarWeek(1)
    /\ Cardinality(DOMAIN all_time_xp) = 2
    /\ submissions = EmptyMap /\ player_list = <<>>


\* C13: no scoring failure is replaced by a default: when, for some roster
\* participant, the oracle is unavailable, consensus rejects the scoring, or
\* the accepted output is malformed or carries no total, judge_all fails for
\* the whole call and records no score.
C13_NoDefaultScore ==
    (round_open /\ ~judging_done /\ player_list # <<>>) =>
        \A oracle \in [Range(player_list) -> ScoreOutcomes] :
            (\E p \in Range(player_list) : oracle[p].err # NoError \/ ~oracle[p].has_total)
                => LET r == judge_all(St, host, oracle)
                   IN  r.err # NoError /\ r.st = St


\* C14: in every state open_round and judge_all called by anyone but the host
\* fail with Unauthorized, whatever the date, the topic fetch and the scoring
\* would yield, and change nothing; the host is the deployer throughout.
C14_OnlyHost ==
    /\ host = Deployer
    /\ \A sender \in Addresses \ {host} :
          /\ \A k \in DateIdxs, f \in Fetched(Len(opened) + 1) :
                LET r == open_round(St, sender, DateTimeOf(k), f)
                IN  r.err = "Unauthorized" /\ r.st = St
          /\ \A oracle \in [Range(player_list) -> {Scored(50), NoTotal, ScoreError("OracleUnavailable")}] :
                LET r == judge_all(St, sender, oracle)
                IN  r.err = "Unauthorized" /\ r.st = St

\* a participant who is not the host has called judge_all between two rounds
C14_Witness ==
    /\ tx.op = "judge_all" /\ tx.err = "Unauthorized"
    /\ ~round_open /\ judging_done
    /\ player_list # <<>>

C16_EmptyRosterNoSubmissions ==
    /\ (round_open /\ player_list = <<>>) =>
          \A oracle \in [Range(player_list) -> ScoreOutcomes] :
              LET r == judge_all(St, host, oracle)
              IN  r.err = "NoSubmissions" /\ r.st = St
    /\ (tx.op = "judge_all" /\ tx.err = "NoSubmissions") =>
          round_open /\ ~judging_done /\ player_list = <<>> /\ scores = EmptyMap
    /\ (tx.op = "judge_all" /\ tx.err = NoError) => tx.n > 0

\* the host has called judge_all on the second round before anyone submitted
C16_Witness ==
    /\ tx.op = "judge_all" /\ tx.err = "NoSubmissions"
    /\ round_open /\ ~judging_done
    /\ Len(opened) = 2 /\ all_time_xp # EmptyMap


\* C17: when the topic fetch of open_round fails, open_round fails and changes
\* nothing, so the period of the call is not consumed: the stored period is
\* always the period of the last round that was opened, and the same call
\* repeated with a successful fetch is accepted.
C17_FailedFetchConsumesNothing ==
    /\ current_week = IF opened = <<>> THEN EmptyStr ELSE opened[Len(opened)]
    /\ \A k \in DateIdxs, e \in TopicErrors :
          LET r == open_round(St, host, DateTimeOf(k), TopicError(e))
              again == open_round(r.st, host, DateTimeOf(k), TopicOf(Len(opened) + 1))
          IN  /\ r.err # NoError
              /\ r.st = St
              /\ r.err = e => (again.err = NoError /\ again.st.current_week = CalendarWeek(k))
    /\ (tx.op = "open_round" /\ tx.err \in TopicErrors) => ~round_open

\* between the first and the second round an open_round dated in a new period
\* has failed in the topic fetch
C17_Witness ==
    /\ tx.op = "open_round" /\ tx.err = "ConsensusDivergence"
    /\ judging_done /\ ~round_open
    /\ current_week = CalendarWeek(0)
    /\ player_list # <<>>

\* C18: round_open and judging_done are never both true, so no submit fails
\* with RoundAlreadyJudged and no judge_all fails with AlreadyJudged, whoever
\* calls and whatever the input.
C18_OpenAndJudgedExclusive ==
    /\ ~(round_open /\ judging_done)
    /\ tx.err \notin {"RoundAlreadyJudged", "AlreadyJudged"}
    /\ \A sender \in Addresses :
          /\ \A side \in Sides, argument \in Arguments :
                submit_argument(St, sender, side, argument).err # "RoundAlreadyJudged"
          /\ \A oracle \in [Range(player_list) -> {Scored(50), NoTotal, ScoreError("ConsensusRejected")}] :
                judge_all(St, sender, oracle).err # "AlreadyJudged"

\* the second round is judged and a submit has been turned away by the
\* RoundNotOpen check
C18_Witness ==
    /\ judging_done /\ ~round_open
    /\ Len(opened) = 2
    /\ tx.op = "submit_argument" /\ tx.err = "RoundNotOpen"

\* C19: the participants on the roster are the keys of the submissions; the
\* scores have no key while the round is open and the roster's participants as
\* keys once the round is judged; so the deletions of the next open_round find
\* every entry they delete.
C19_RosterMatchesLedgers ==
    /\ Range(player_list) = DOMAIN submissions
    /\ round_open => DOMAIN scores = {}
    /\ judging_done => DOMAIN scores = Range(player_list)
    /\ (~round_open /\ ~judging_done) => (scores = EmptyMap /\ player_list = <<>>)
    /\ tx.err # "KeyError"
    /\ ~round_open =>
          LET r == ClearLoop(St, 1)
          IN  r.err = NoError /\ r.st.submissions = EmptyMap /\ r.st.scores = EmptyMap
    /\ \A k \in DateIdxs, f \in Fetched(Len(opened) + 1) :
          open_round(St, host, DateTimeOf(k), f).err # "KeyError"

\* the second round has been opened after a judged round with two participants,
\* and one participant has submitted to it
C19_Witness ==
    /\ Len(opened) = 2 /\ round_open
    /\ Cardinality(DOMAIN all_time_xp) = 2
    /\ Cardinality(DOMAIN submissions) = 1


\* a round for a later period can be opened: the host's open_round dated in
\* any period but the stored one, with a successful topic fetch, is accepted
CanOpenLater ==
    \A k \in DateIdxs :
        WeekOfDay[k] # current_week =>
            open_round(St, host, DateTimeOf(k), TopicOf(Len(opened) + 1)).err = NoError

\* C20 as stated: every open round, also one nobody submits to, is eventually
\* judged and then a round for a later period can be opened.
C20_EveryOpenRoundIsClosed ==
    round_open ~> (judging_done /\ ~round_open /\ CanOpenLater)

\* C20: under the host's fair calls, every open round that has at least one
\* submission is eventually judged, and then a round for a later period can be
\* opened; a round nobody submits to stays open.
C20_OpenRoundWithSubmissionIsClosed ==
    /\ (round_open /\ player_list # <<>>) ~> (judging_done /\ ~round_open /\ CanOpenLater)
    /\ [][(round_open /\ player_list = <<>> /\ player_list' = <<>>) => round_open']_vars

\* a round with one participant has been judged and a later round can be opened
C20_Witness ==
    /\ judging_done /\ ~round_open /\ CanOpenLater
    /\ tx.op = "judge_all" /\ tx.err = NoError
    /\ Len(player_list) = 1
    /\ Len(opened) = 1

====
